---- MODULE Spec2Model ----
(***************************************************************************)
(* A model of the multi-proxy implementations of the CUDA API wrappers:    *)
(* src/cuda/api/kernel.hpp, src/cuda/api/multi_wrapper_impls.hpp and       *)
(* src/cuda/api/miscellany.hpp.                                            *)
(*                                                                         *)
(* The ambient "current device" of the CUDA runtime is the variable        *)
(* `current`; a context handle is identified with the device whose primary *)
(* context it is.  Every wrapper method is one action: the scoped override *)
(* it constructs, the driver calls it makes under the override, and the    *)
(* override's destructor are all part of that one step.  The driver is the *)
(* environment: the status of every driver call is chosen freely.          *)
(***************************************************************************)
EXTENDS Integers, Sequences, FiniteSets, TLC

\* ------------------------------------------------------------------ bounds

\* Number of devices on the system; device ids are 0 .. NumDevices-1.
NumDevices == 2
\* Deepest nesting of scoped overrides held by the calling code.
MaxDepth == 2
\* Kernel function pointers known to the model.
NumKernelPtrs == 1
\* Largest attribute value the driver reports for a read.
MaxAttrValue == 1
\* Largest block size (threads per block) of the modelled device.
MaxBlockSize == 2
\* Largest dynamic shared memory size a kernel asks for, in units.
MaxSmem == 2
\* Handle proxies the calling code holds at once.
MaxProxies == 2
\* Native handles the driver hands out (created streams, imported events).
MaxHandles == 1
\* Operations the driver's streams hold at a time, over all streams.
MaxQueued == 2
\* Largest magnitude of the device count the driver writes.
MaxDeviceCount == 3
\* Width in bits of kernel::attribute_value_t (int) and of
\* memory::shared::size_t (unsigned), scaled down.
ValueBits == 3

Devices == 0 .. (NumDevices - 1)
KernelPtrs == 1 .. NumKernelPtrs
AttrValues == 0 .. MaxAttrValue
ProxyIds == 1 .. MaxProxies
BlockSizes == 1 .. MaxBlockSize
SmemSizes == 0 .. MaxSmem
\* block_size_limit: 0 stands for "no limit".
BlockSizeLimits == 0 .. MaxBlockSize

\* ------------------------------------------------------- program constants

\* Index of "Maximum allowed size of dynamically-allocated shared memory".
MaxDynamicSharedSizeAttribute == 8
\* Index of "Preferred shared memory carve-out to actual shared memory".
PreferredSharedMemoryCarveoutAttribute == 9
\* "Percentage value can't exceed 100"
MaxPercentage == 100

\* Index of "Maximum number of threads per block".
MaxThreadsPerBlockAttribute == 0
\* Index of "PTX virtual architecture version ...".
PtxVersionAttribute == 5
\* Index of "Binary architecture version ...".
BinaryVersionAttribute == 6

\* Carve-out percentages and attribute values handed to the setters: the
\* ends of the range and both sides of the limit.
Values ==
    {0, 1, MaxPercentage - 1, MaxPercentage, MaxPercentage + 1, 2 * MaxPercentage}

\* The kernel attribute enumeration (the ten names of the attribute table).
Attributes == 0 .. PreferredSharedMemoryCarveoutAttribute
\* The values of kernel::attribute_t: the ten attributes and the
\* enumeration's end marker that follows them.
AttributeEnum == 0 .. (PreferredSharedMemoryCarveoutAttribute + 1)
\* The attributes kernel_t has setters for.
SetAttributes ==
    {MaxDynamicSharedSizeAttribute, PreferredSharedMemoryCarveoutAttribute}
\* The attributes the convenience reads of kernel_t ask for.
ReadAttributes ==
    {MaxThreadsPerBlockAttribute, PtxVersionAttribute, BinaryVersionAttribute}

\* Toolkit revisions (CUDART_VERSION) the code may be compiled against.
CudartVersions == {8000, 9000, 10000, 10010}

\* Outcome of a driver call: the driver is the environment.
DriverStatus == {"success", "error"}

\* A kernel_t: { device_id_, ptr_ }; never owning.
Kernels == [device_id : Devices, ptr : KernelPtrs]

\* The device that is current when a thread starts.
default_device == 0
\* stream::default_stream_handle: the null handle.
default_stream_handle == 0
\* Handles the driver creates are 1 .. MaxHandles.
Handles == default_stream_handle .. MaxHandles

VARIABLES
    current,      \* the ambient current device of the calling thread
    base,         \* history: the ambient value while no caller-held guard is alive
    guards,       \* stack of the scoped_override_t objects alive in the caller
    unwinding,    \* TRUE while an exception thrown by a wrapper propagates
    thrownAt,     \* history: the nesting depth at which that exception was thrown
    cudart,       \* CUDART_VERSION of the build
    lastOp,       \* the last wrapper call: its arguments, driver calls, outcome
    proxies,      \* the handle proxies the caller holds, by slot
    nextHandle,   \* the next native handle the driver hands out
    destroyCalls, \* per native handle, the driver destroy calls issued for it
    resources,    \* per native handle, what the driver made it for
    hw,           \* the device as the occupancy calculator sees it
    queues,       \* per driver stream, the operations it accepted and how
                  \* many of them, in submission order, have completed
    ndebug,       \* TRUE in a build with NDEBUG defined
    funcAttr      \* the driver's side of the kernel attributes: the last
                  \* attribute value it accepted, and for which kernel

vars == <<current, base, guards, unwinding, thrownAt, cudart, lastOp,
          proxies, nextHandle, destroyCalls, resources, hw, queues, ndebug, funcAttr>>

ambientVars == <<current, base, guards, unwinding, thrownAt>>
proxyVars == <<proxies, nextHandle, destroyCalls, resources>>
buildVars == <<cudart, hw, queues, ndebug>>
envVars == <<buildVars, funcAttr>>
\* The occupancy calculator's device: shared memory per multiprocessor with
\* and without the caching override, and whether the query accepts the kernel.
Hardware == [smem : [BOOLEAN -> 1 .. MaxSmem], accepts : BOOLEAN]
SomeHardware == [smem |-> [b \in BOOLEAN |-> MaxSmem], accepts |-> TRUE]
\* The driver's handles before any wrapper call: the null stream only.
NoResources ==
    [h \in Handles |-> IF h = default_stream_handle THEN "default_stream" ELSE "none"]

NoOp == [op |-> "none", outcome |-> "none", calls |-> <<>>]
NoProxy == [kind |-> "none"]
FreeSlots == {i \in ProxyIds : proxies[i] = NoProxy}
\* The caller is between wrapper calls: the calls of one thread are
\* sequential, and a call that threw is over once its exception is caught.
Idle == ~unwinding /\ lastOp = NoOp

\* --------------------------------------------------- the scoped override

\* scoped_override_t's constructor: remembers the ambient value and
\* replaces it by the target.
scoped_override_ctor(ambient, target) ==
    [previous |-> ambient, ambient |-> target]

\* scoped_override_t's destructor: the ambient value it leaves behind.
scoped_override_dtor(guard) == guard.previous

\* throw_if_error: the outcome of a wrapper whose driver call gave `status`.
throw_if_error(status) ==
    IF status = "success" THEN "ok" ELSE "driver_error"

\* A wrapper returns normally or throws: an exception starts to unwind the
\* caller's scopes from the depth the call was made at.
Throw(outcome) ==
    /\ unwinding' = (outcome \notin {"ok", "terminate", "crash"})
    /\ thrownAt' = IF outcome \notin {"ok", "terminate", "crash"}
                   THEN Len(guards) ELSE 0

\* The program has ended inside the last call: std::terminate was called,
\* or the process crashed.
Terminated == lastOp.outcome \in {"terminate", "crash"}

\* do_take_ownership / do_not_take_ownership
do_take_ownership == TRUE
do_not_take_ownership == FALSE

\* stream::detail_::wrap(device_id, handle, take_ownership = false)
stream_wrap(device_id, handle, take_ownership) ==
    [kind |-> "stream", device_id |-> device_id, handle |-> handle,
     owning |-> take_ownership, moved_from |-> FALSE]

\* ------------------------------------------------ the caller's own scopes

\* The caller opens a scoped override for device d.
EnterOverride(d) ==
    /\ ~unwinding
    /\ ~Terminated
    /\ Len(guards) < MaxDepth
    /\ LET g == scoped_override_ctor(current, d)
       IN /\ guards' = Append(guards, g)
          /\ current' = g.ambient
    /\ UNCHANGED <<base, unwinding, thrownAt, envVars, lastOp, proxyVars>>

\* The innermost scoped override of the caller goes out of scope, on the
\* normal path or while an exception unwinds the stack.
ExitOverride ==
    /\ guards # <<>>
    /\ ~Terminated
    /\ current' = scoped_override_dtor(guards[Len(guards)])
    /\ guards' = SubSeq(guards, 1, Len(guards) - 1)
    /\ UNCHANGED <<base, unwinding, thrownAt, envVars, lastOp, proxyVars>>

\* The calling thread sits in the blocking wait of event_t::fire.
Blocked == lastOp.op = "fire" /\ lastOp.stage = "synchronizing"

\* The caller is done with the result of the last wrapper call.
Return ==
    /\ ~unwinding
    /\ lastOp # NoOp
    /\ ~Blocked
    /\ ~Terminated
    /\ lastOp' = NoOp
    /\ UNCHANGED <<ambientVars, envVars, proxyVars>>

\* The caller catches the exception in flight, at whatever depth.
Catch ==
    /\ unwinding
    /\ unwinding' = FALSE
    /\ thrownAt' = 0
    /\ UNCHANGED <<current, base, guards, envVars, lastOp, proxyVars>>

\* ------------------------------------------- the driver's attribute store

\* No attribute has been set through the driver yet.
NoSet == [set |-> FALSE]

\* What cuFuncGetAttribute can give for a kernel's attribute: the value
\* the driver last accepted for it, or, failing that knowledge, any value.
DriverValues(k, attribute) ==
    IF funcAttr.set /\ funcAttr.kernel = k /\ funcAttr.attribute = attribute
    THEN {funcAttr.value}
    ELSE AttrValues

\* cudaFuncSetAttribute's effect: a call the driver accepted leaves the
\* value with the kernel.
SetInDriver(k, attribute, value, outcome) ==
    funcAttr' = IF outcome = "ok"
                THEN [set |-> TRUE, kernel |-> k, attribute |-> attribute,
                      value |-> value]
                ELSE funcAttr

\* ------------------------------------------------------- kernel_t reads

\* kernel::detail_::attribute_name(attribute_index): names[attribute_index],
\* as the set of things the read can give: the entry of the table, or, for
\* an index past the table, any bytes or a fault.
attribute_name(attribute_index) ==
    IF attribute_index \in Attributes
    THEN {[kind |-> "name", index |-> attribute_index]}
    ELSE {[kind |-> "garbage", index |-> attribute_index],
          [kind |-> "fault", index |-> attribute_index]}

\* The text the error message names the attribute by: its number in an
\* NDEBUG build, attribute_name(attribute) otherwise.
AttributeLabels(attribute) ==
    IF ndebug
    THEN {[kind |-> "number", index |-> attribute]}
    ELSE attribute_name(attribute)

\* kernel::detail_::get_attribute_in_current_context: one driver call made
\* with `ambient` as the current device, then the message built from the
\* attribute's label, then throw_if_error; [call, outcome, value, message].
get_attribute_in_current_context(ambient, handle, attribute, label, status, value) ==
    [call    |-> [fn |-> "cuFuncGetAttribute", device |-> ambient,
                  handle |-> handle, attribute |-> attribute],
     outcome |-> IF label.kind = "fault" THEN "crash"
                 ELSE throw_if_error(status),
     message |-> IF label.kind # "fault" /\ status # "success"
                 THEN <<label, status>> ELSE <<>>,
     value   |-> IF label.kind # "fault" /\ status = "success"
                 THEN value ELSE -1]

\* get_attribute answering from a value kept in the proxy, with no driver
\* call.
get_attribute_result_cached(ambient, k, attribute, label, status, value) ==
    [calls |-> <<>>, outcome |-> "ok", message |-> <<>>, value |-> 0,
     ambient |-> ambient]

\* kernel_t::get_attribute, as a result: the scoped override around
\* get_attribute_in_current_context; a fault ends the program with the
\* override alive.
get_attribute_result(ambient, k, attribute, label, status, value) ==
    LET g == scoped_override_ctor(ambient, k.device_id)
        r == get_attribute_in_current_context(
                 g.ambient, k.ptr, attribute, label, status, value)
    IN [calls |-> <<r.call>>, outcome |-> r.outcome, message |-> r.message,
        value |-> r.value,
        ambient |-> IF r.outcome = "crash" THEN g.ambient
                    ELSE scoped_override_dtor(g)]

\* kernel_t::get_attribute
kernel_get_attribute(k, attribute) ==
    /\ Idle
    /\ \E status \in DriverStatus, label \in AttributeLabels(attribute) :
       \E value \in IF status = "success" THEN DriverValues(k, attribute)
                    ELSE {0} :
         LET r == get_attribute_result(
                      current, k, attribute, label, status, value)
         IN /\ lastOp' = [op |-> "get_attribute", kernel |-> k,
                          attribute |-> attribute, label |-> label,
                          status |-> status,
                          calls |-> r.calls, outcome |-> r.outcome,
                          message |-> r.message, value |-> r.value]
            /\ current' = r.ambient
            /\ Throw(r.outcome)
    /\ UNCHANGED <<base, guards, envVars, proxyVars>>

\* kernel_t::maximum_threads_per_block
kernel_maximum_threads_per_block(k) ==
    /\ Idle
    /\ \E status \in DriverStatus,
          label \in AttributeLabels(MaxThreadsPerBlockAttribute) :
       \E value \in IF status = "success" THEN DriverValues(k, MaxThreadsPerBlockAttribute)
                    ELSE {0} :
         LET r == get_attribute_result(
                      current, k, MaxThreadsPerBlockAttribute, label, status,
                      value)
         IN /\ lastOp' = [op |-> "maximum_threads_per_block", kernel |-> k,
                          attribute |-> MaxThreadsPerBlockAttribute,
                          label |-> label, status |-> status,
                          calls |-> r.calls, outcome |-> r.outcome,
                          message |-> r.message, value |-> r.value]
            /\ current' = r.ambient
            /\ Throw(r.outcome)
    /\ UNCHANGED <<base, guards, envVars, proxyVars>>

\* device::compute_capability_t::from_combined_number
from_combined_number(combined) ==
    [major |-> combined \div 10, minor |-> combined % 10]

\* A noexcept member function whose body gave `r`: an exception leaving it
\* calls std::terminate, with the stack unwound or not as the build has it.
noexcept_result(r, entered) ==
    IF r.outcome \in {"ok", "crash"}
    THEN {r}
    ELSE {[r EXCEPT !.outcome = "terminate", !.ambient = a] :
              a \in {r.ambient, entered}}

\* kernel_t::ptx_version and kernel_t::binary_compilation_target_architecture:
\* noexcept reads of one attribute through get_attribute.
noexcept_version_read(k, op, attribute) ==
    /\ Idle
    /\ \E status \in DriverStatus, label \in AttributeLabels(attribute) :
       \E value \in IF status = "success" THEN DriverValues(k, attribute)
                    ELSE {0} :
       \E r \in noexcept_result(
                    get_attribute_result(
                        current, k, attribute, label, status, value),
                    k.device_id) :
            /\ lastOp' = [op |-> op, kernel |-> k,
                          attribute |-> attribute,
                          label |-> label, status |-> status,
                          calls |-> r.calls, outcome |-> r.outcome,
                          message |-> r.message,
                          value |-> IF r.outcome = "ok"
                                    THEN from_combined_number(r.value)
                                    ELSE from_combined_number(0)]
            /\ current' = r.ambient
            /\ Throw(r.outcome)
    /\ UNCHANGED <<base, guards, envVars, proxyVars>>

\* kernel_t::ptx_version
kernel_ptx_version(k) ==
    noexcept_version_read(k, "ptx_version", PtxVersionAttribute)

\* kernel_t::binary_compilation_target_architecture
kernel_binary_compilation_target_architecture(k) ==
    noexcept_version_read(k, "binary_compilation_target_architecture", BinaryVersionAttribute)

\* ---------------------------------------------------------- device::count

\* status_t values of cudaGetDeviceCount, and what it writes to device_count.
CountStatus == {"success", "no_device", "error"}
ReportedCounts == (0 - MaxDeviceCount) .. MaxDeviceCount

\* device::count() returning whatever count the driver wrote.
device_count_unchecked(result, reported) ==
    IF result = "no_device"
    THEN [outcome |-> "ok", value |-> 0]
    ELSE IF throw_if_error(result) # "ok"
    THEN [outcome |-> throw_if_error(result), value |-> 0]
    ELSE [outcome |-> "ok", value |-> reported]

\* device::count(), as a result: what it returns or throws for the status
\* and the count cudaGetDeviceCount gave.
device_count(result, reported) ==
    IF result = "no_device"
    THEN [outcome |-> "ok", value |-> 0]
    ELSE IF throw_if_error(result) # "ok"
    THEN [outcome |-> throw_if_error(result), value |-> 0]
    ELSE IF reported < 0
    THEN [outcome |-> "logic_error", value |-> 0]
    ELSE [outcome |-> "ok", value |-> reported]

\* device::count()
device_count_call ==
    /\ Idle
    /\ \E result \in CountStatus, reported \in ReportedCounts :
         LET r == device_count(result, reported)
         IN /\ lastOp' = [op |-> "count", status |-> result,
                          reported |-> reported,
                          calls |-> <<[fn |-> "cudaGetDeviceCount"]>>,
                          outcome |-> r.outcome, value |-> r.value]
            /\ Throw(r.outcome)
    /\ UNCHANGED <<current, base, guards, envVars, proxyVars>>

\* ----------------------------------------------------- kernel_t setters

\* The driver call of the attribute setters, made with `ambient` current.
cudaFuncSetAttribute(ambient, ptr, attribute, value) ==
    [fn |-> "cudaFuncSetAttribute", device |-> ambient, ptr |-> ptr,
     attribute |-> attribute, value |-> value]

\* kernel_t::set_attribute
kernel_set_attribute(k, attribute, value) ==
    /\ Idle
    /\ \E status \in DriverStatus :
         LET g == scoped_override_ctor(current, k.device_id)
             call == cudaFuncSetAttribute(g.ambient, k.ptr, attribute, value)
         IN /\ lastOp' = [op |-> "set_attribute", kernel |-> k,
                          attribute |-> attribute, value |-> value,
                          calls |-> <<call>>,
                          outcome |-> throw_if_error(status)]
            /\ current' = scoped_override_dtor(g)
            /\ SetInDriver(k, attribute, value, throw_if_error(status))
            /\ Throw(throw_if_error(status))
    /\ UNCHANGED <<base, guards, buildVars, proxyVars>>

\* kernel_t::set_preferred_shared_mem_fraction
kernel_set_preferred_shared_mem_fraction(k, shared_mem_percentage) ==
    /\ Idle
    /\ \E status \in DriverStatus :
         LET g == scoped_override_ctor(current, k.device_id)
             call == cudaFuncSetAttribute(
                         g.ambient, k.ptr,
                         PreferredSharedMemoryCarveoutAttribute,
                         shared_mem_percentage)
             r == IF shared_mem_percentage > MaxPercentage
                  THEN [outcome |-> "invalid_argument", calls |-> <<>>]
                  ELSE IF cudart >= 9000
                  THEN [outcome |-> throw_if_error(status), calls |-> <<call>>]
                  ELSE [outcome |-> "not_yet_implemented", calls |-> <<>>]
         IN /\ lastOp' = [op |-> "set_preferred_shared_mem_fraction",
                          kernel |-> k,
                          attribute |-> PreferredSharedMemoryCarveoutAttribute,
                          value |-> shared_mem_percentage,
                          calls |-> r.calls, outcome |-> r.outcome]
            /\ current' = scoped_override_dtor(g)
            /\ SetInDriver(k, PreferredSharedMemoryCarveoutAttribute, shared_mem_percentage, r.outcome)
            /\ Throw(r.outcome)
    /\ UNCHANGED <<base, guards, buildVars, proxyVars>>

\* The values of memory::shared::size_t, and the largest value of
\* kernel::attribute_value_t.
SharedSizes == 0 .. (2^ValueBits - 1)
MaxAttributeValue == 2^(ValueBits - 1) - 1

\* (kernel::attribute_value_t) amount: unsigned to signed of the same
\* width, the bit pattern kept.
to_attribute_value(amount) ==
    IF amount > MaxAttributeValue THEN amount - 2^ValueBits ELSE amount

\* (cuda::memory::shared::size_t) value: signed to unsigned, modulo 2^width.
to_shared_size(value) == value % (2^ValueBits)

\* kernel_t::set_maximum_dynamic_shared_memory_per_block
kernel_set_maximum_dynamic_shared_memory_per_block(k, amount_required_by_kernel) ==
    /\ Idle
    /\ \E status \in DriverStatus :
         LET amount_required_by_kernel_ ==
                 to_attribute_value(amount_required_by_kernel)
             g == scoped_override_ctor(current, k.device_id)
             call == cudaFuncSetAttribute(
                         g.ambient, k.ptr, MaxDynamicSharedSizeAttribute,
                         amount_required_by_kernel_)
             r == IF amount_required_by_kernel #
                         to_shared_size(amount_required_by_kernel_)
                  THEN [outcome |-> "invalid_argument", calls |-> <<>>]
                  ELSE [outcome |-> throw_if_error(status), calls |-> <<call>>]
         IN /\ lastOp' = [op |-> "set_maximum_dynamic_shared_memory_per_block",
                          kernel |-> k,
                          attribute |-> MaxDynamicSharedSizeAttribute,
                          amount |-> amount_required_by_kernel,
                          calls |-> r.calls, outcome |-> r.outcome]
            /\ current' = scoped_override_dtor(g)
            /\ SetInDriver(k, MaxDynamicSharedSizeAttribute, amount_required_by_kernel_, r.outcome)
            /\ Throw(r.outcome)
    /\ UNCHANGED <<base, guards, buildVars, proxyVars>>

\* opt_in_to_extra_dynamic_memory making the driver call in every build.
kernel_opt_in_ungated(k, amount_required_by_kernel) ==
    /\ Idle
    /\ \E status \in DriverStatus :
         LET g == scoped_override_ctor(current, k.device_id)
             call == cudaFuncSetAttribute(
                         g.ambient, k.ptr, MaxDynamicSharedSizeAttribute,
                         amount_required_by_kernel)
         IN /\ lastOp' = [op |-> "opt_in_to_extra_dynamic_memory",
                          kernel |-> k,
                          attribute |-> MaxDynamicSharedSizeAttribute,
                          value |-> amount_required_by_kernel,
                          calls |-> <<call>>,
                          outcome |-> throw_if_error(status)]
            /\ current' = scoped_override_dtor(g)
            /\ SetInDriver(k, MaxDynamicSharedSizeAttribute, amount_required_by_kernel, throw_if_error(status))
            /\ Throw(throw_if_error(status))
    /\ UNCHANGED <<base, guards, buildVars, proxyVars>>

\* kernel_t::opt_in_to_extra_dynamic_memory
kernel_opt_in_to_extra_dynamic_memory(k, amount_required_by_kernel) ==
    /\ Idle
    /\ \E status \in DriverStatus :
         LET g == scoped_override_ctor(current, k.device_id)
             call == cudaFuncSetAttribute(
                         g.ambient, k.ptr, MaxDynamicSharedSizeAttribute,
                         amount_required_by_kernel)
             r == IF cudart >= 9000
                  THEN [outcome |-> throw_if_error(status), calls |-> <<call>>]
                  ELSE [outcome |-> "not_yet_implemented", calls |-> <<>>]
         IN /\ lastOp' = [op |-> "opt_in_to_extra_dynamic_memory",
                          kernel |-> k,
                          attribute |-> MaxDynamicSharedSizeAttribute,
                          value |-> amount_required_by_kernel,
                          calls |-> r.calls, outcome |-> r.outcome]
            /\ current' = scoped_override_dtor(g)
            /\ SetInDriver(k, MaxDynamicSharedSizeAttribute, amount_required_by_kernel, r.outcome)
            /\ Throw(r.outcome)
    /\ UNCHANGED <<base, guards, buildVars, proxyVars>>

\* ------------------------------------------------------------- occupancy

Min(a, b) == IF a <= b THEN a ELSE b

\* cudaOccupancyMaxActiveBlocksPerMultiprocessorWithFlags: the blocks of
\* block_size threads and smem units of dynamic shared memory that fit one
\* multiprocessor of the device.
occupancy_max_active_blocks(block_size, smem, disable_caching_override) ==
    LET capacity == hw.smem[disable_caching_override]
    IN IF smem > capacity THEN 0
       ELSE IF smem = 0 THEN MaxBlockSize \div block_size
       ELSE Min(MaxBlockSize \div block_size, capacity \div smem)

\* cudaOccupancyMaxPotentialBlockSizeVariableSMemWithFlags: tries the block
\* sizes from the limit downwards, asks the unary function for the shared
\* memory of each, and keeps the first one of the highest occupancy in
\* threads; [status, min_grid_size_in_blocks, block_size].
occupancy_max_potential_block_size(ptr, block_size_to_dynamic_shared_mem_size, block_size_limit, disable_caching_override) ==
    LET limit == IF block_size_limit = 0 THEN MaxBlockSize
                 ELSE Min(block_size_limit, MaxBlockSize)
        threads(b) == b * occupancy_max_active_blocks(
                              b, block_size_to_dynamic_shared_mem_size[b],
                              disable_caching_override)
        best == CHOOSE b \in 1 .. limit :
                    \A c \in 1 .. limit :
                        \/ threads(c) < threads(b)
                        \/ threads(c) = threads(b) /\ c <= b
    IN IF hw.accepts
       THEN [status |-> "success",
             min_grid_size_in_blocks |-> threads(best) \div best,
             block_size |-> best]
       ELSE [status |-> "error", min_grid_size_in_blocks |-> 0, block_size |-> 0]

\* detail_::min_grid_params_for_max_occupancy, the UnaryFunction overload
detail_min_grid_params_unary(ptr, device_id, block_size_to_dynamic_shared_mem_size, block_size_limit, disable_caching_override) ==
    IF cudart <= 10000
    THEN [outcome |-> "not_yet_implemented", calls |-> <<>>,
          grid |-> 0, block |-> 0]
    ELSE LET r == occupancy_max_potential_block_size(
                      ptr, block_size_to_dynamic_shared_mem_size,
                      block_size_limit, disable_caching_override)
         IN [outcome |-> throw_if_error(r.status),
             calls |-> <<[fn |-> "cudaOccupancyMaxPotentialBlockSizeVariableSMemWithFlags",
                          device |-> current,
                          ptr |-> ptr,
                          smem |-> block_size_to_dynamic_shared_mem_size,
                          block_size_limit |-> block_size_limit,
                          flags |-> disable_caching_override]>>,
             grid |-> IF r.status = "success" THEN r.min_grid_size_in_blocks ELSE 0,
             block |-> IF r.status = "success" THEN r.block_size ELSE 0]

\* The fixed-size overload asking for no dynamic shared memory at all.
detail_min_grid_params_fixed_no_smem(ptr, device_id, dynamic_shared_mem_size, block_size_limit, disable_caching_override) ==
    detail_min_grid_params_unary(
        ptr, device_id, [b \in BlockSizes |-> 0],
        block_size_limit, disable_caching_override)

\* detail_::min_grid_params_for_max_occupancy, the fixed-size overload:
\* always_need_same_shared_mem_size is the constant function.
detail_min_grid_params_fixed(ptr, device_id, dynamic_shared_mem_size, block_size_limit, disable_caching_override) ==
    detail_min_grid_params_unary(
        ptr, device_id, [b \in BlockSizes |-> dynamic_shared_mem_size],
        block_size_limit, disable_caching_override)

\* kernel_t::min_grid_params_for_max_occupancy(dynamic_shared_memory_size,
\* block_size_limit, disable_caching_override)
kernel_min_grid_params_fixed(k, dynamic_shared_memory_size, block_size_limit, disable_caching_override) ==
    /\ Idle
    /\ LET r == detail_min_grid_params_fixed(
                    k.ptr, k.device_id, dynamic_shared_memory_size,
                    block_size_limit, disable_caching_override)
       IN /\ lastOp' = [op |-> "min_grid_params_fixed", kernel |-> k,
                        smem |-> dynamic_shared_memory_size,
                        block_size_limit |-> block_size_limit,
                        disable_caching_override |-> disable_caching_override,
                        outcome |-> r.outcome, calls |-> r.calls,
                        grid |-> r.grid, block |-> r.block]
          /\ Throw(r.outcome)
    /\ UNCHANGED <<current, base, guards, envVars, proxyVars>>

\* kernel_t::min_grid_params_for_max_occupancy(
\* block_size_to_dynamic_shared_mem_size, block_size_limit,
\* disable_caching_override)
kernel_min_grid_params_unary(k, block_size_to_dynamic_shared_mem_size, block_size_limit, disable_caching_override) ==
    /\ Idle
    /\ LET r == detail_min_grid_params_unary(
                    k.ptr, k.device_id, block_size_to_dynamic_shared_mem_size,
                    block_size_limit, disable_caching_override)
       IN /\ lastOp' = [op |-> "min_grid_params_unary", kernel |-> k,
                        smem |-> block_size_to_dynamic_shared_mem_size,
                        block_size_limit |-> block_size_limit,
                        disable_caching_override |-> disable_caching_override,
                        outcome |-> r.outcome, calls |-> r.calls,
                        grid |-> r.grid, block |-> r.block]
          /\ Throw(r.outcome)
    /\ UNCHANGED <<current, base, guards, envVars, proxyVars>>

\* ----------------------------------------------------- device_t methods

\* create_stream making its device current with no guard to restore the
\* previous one.
device_create_stream_unguarded(id_) ==
    /\ Idle
    /\ FreeSlots # {}
    /\ nextHandle <= MaxHandles
    /\ \E status \in DriverStatus :
         LET call == [fn |-> "cudaStreamCreateWithPriority", device |-> id_]
             slot == CHOOSE i \in FreeSlots : \A j \in FreeSlots : i <= j
         IN /\ lastOp' = [op |-> "create_stream", device |-> id_,
                          calls |-> <<call>>,
                          outcome |-> throw_if_error(status)]
            /\ IF status = "success"
               THEN /\ proxies' = [proxies EXCEPT ![slot] =
                            stream_wrap(id_, nextHandle, do_take_ownership)]
                    /\ nextHandle' = nextHandle + 1
                    /\ resources' = [resources EXCEPT ![nextHandle] = "stream"]
               ELSE UNCHANGED <<proxies, nextHandle, resources>>
            /\ current' = id_
            /\ Throw(throw_if_error(status))
    /\ UNCHANGED <<base, guards, envVars, destroyCalls>>

\* device_t::create_stream
device_create_stream(id_) ==
    /\ Idle
    /\ FreeSlots # {}
    /\ nextHandle <= MaxHandles
    /\ \E status \in DriverStatus :
         LET g == scoped_override_ctor(current, id_)
             call == [fn |-> "cudaStreamCreateWithPriority", device |-> g.ambient]
             slot == CHOOSE i \in FreeSlots : \A j \in FreeSlots : i <= j
         IN /\ lastOp' = [op |-> "create_stream", device |-> id_,
                          calls |-> <<call>>,
                          outcome |-> throw_if_error(status)]
            /\ IF status = "success"
               THEN /\ proxies' = [proxies EXCEPT ![slot] =
                            stream_wrap(id_, nextHandle, do_take_ownership)]
                    /\ nextHandle' = nextHandle + 1
                    /\ resources' = [resources EXCEPT ![nextHandle] = "stream"]
               ELSE UNCHANGED <<proxies, nextHandle, resources>>
            /\ current' = scoped_override_dtor(g)
            /\ Throw(throw_if_error(status))
    /\ UNCHANGED <<base, guards, envVars, destroyCalls>>

\* ------------------------------------------- allocation on a device

\* memory::device::make_unique<T>(device, num_elements): a named scoped
\* override, alive until the function returns, around the allocation.
memory_device_make_unique(device_id) ==
    /\ Idle
    /\ \E status \in DriverStatus :
         LET g == scoped_override_ctor(current, device_id)
             call == [fn |-> "device::allocate", device |-> g.ambient]
         IN /\ lastOp' = [op |-> "device_make_unique", device |-> device_id,
                          calls |-> <<call>>,
                          outcome |-> throw_if_error(status)]
            /\ current' = scoped_override_dtor(g)
            /\ Throw(throw_if_error(status))
    /\ UNCHANGED <<base, guards, envVars, proxyVars>>

\* memory::managed::make_unique<T>(device, ..., initial_visibility): the
\* scoped override is an unnamed temporary, which is destroyed at the end of
\* its own statement; the allocation comes after.
memory_managed_make_unique(device_id) ==
    /\ Idle
    /\ \E status \in DriverStatus :
         LET g == scoped_override_ctor(current, device_id)
             after_temporary == scoped_override_dtor(g)
             call == [fn |-> "managed::allocate", device |-> after_temporary]
         IN /\ lastOp' = [op |-> "managed_make_unique", device |-> device_id,
                          calls |-> <<call>>,
                          outcome |-> throw_if_error(status)]
            /\ current' = after_temporary
            /\ Throw(throw_if_error(status))
    /\ UNCHANGED <<base, guards, envVars, proxyVars>>

\* stream_t::enqueue_t::wait(event)
stream_enqueue_wait(stream, event) ==
    /\ Idle
    /\ \E status \in DriverStatus :
         LET g == scoped_override_ctor(current, stream.device_id)
             call == [fn |-> "cudaStreamWaitEvent", device |-> g.ambient,
                      stream_handle |-> stream.handle,
                      event_handle |-> event.handle]
         IN /\ lastOp' = [op |-> "enqueue_wait", device |-> stream.device_id,
                          stream |-> stream, event |-> event,
                          calls |-> <<call>>,
                          outcome |-> throw_if_error(status)]
            /\ current' = scoped_override_dtor(g)
            /\ Throw(throw_if_error(status))
    /\ UNCHANGED <<base, guards, envVars, proxyVars>>

\* kernel_t::maximum_active_blocks_per_multiprocessor
kernel_maximum_active_blocks_per_multiprocessor(k, num_threads_per_block, dynamic_shared_memory_per_block, disable_caching_override) ==
    /\ Idle
    /\ \E status \in DriverStatus :
         LET g == scoped_override_ctor(current, k.device_id)
             call == [fn |-> "cudaOccupancyMaxActiveBlocksPerMultiprocessorWithFlags",
                      device |-> g.ambient, ptr |-> k.ptr,
                      block_size |-> num_threads_per_block,
                      smem |-> dynamic_shared_memory_per_block,
                      flags |-> disable_caching_override]
         IN /\ lastOp' = [op |-> "maximum_active_blocks_per_multiprocessor",
                          kernel |-> k, calls |-> <<call>>,
                          outcome |-> throw_if_error(status),
                          value |-> IF status = "success"
                                    THEN occupancy_max_active_blocks(
                                             num_threads_per_block,
                                             dynamic_shared_memory_per_block,
                                             disable_caching_override)
                                    ELSE -1]
            /\ current' = scoped_override_dtor(g)
            /\ Throw(throw_if_error(status))
    /\ UNCHANGED <<base, guards, envVars, proxyVars>>

\* ------------------------------------------------ managed-range accessors

\* cudaInvalidDeviceId, the filler of the driver's output array.
cudaInvalidDeviceId == 0 - 2

\* Sequences of distinct device ids out of {0 .. n-1}, of length m.
DistinctIds(n, m) ==
    {q \in [1 .. m -> 0 .. (n - 1)] :
         \A i, j \in 1 .. m : i # j => q[i] # q[j]}

\* What cudaMemRangeGetAttribute(cudaMemRangeAttributeAccessedBy) writes to
\* an array of n entries: the accessing devices, then cudaInvalidDeviceId
\* in the entries left.
AccessedByArrays(n) ==
    UNION {{[i \in 1 .. n |-> IF i <= m THEN q[i] ELSE cudaInvalidDeviceId] :
                q \in DistinctIds(n, m)} : m \in 0 .. n}

\* std::lower_bound(first, first + count, value) over the array: the binary
\* search, by positions (first is the number of entries before the range).
RECURSIVE lower_bound(_, _, _, _)
lower_bound(array, first, count, value) ==
    IF count <= 0 THEN first
    ELSE LET step == count \div 2
             it == first + step
         IN IF array[it + 1] < value
            THEN lower_bound(array, it + 1, count - (step + 1), value)
            ELSE lower_bound(array, first, step, value)

\* memory::managed::accessors(region), as a result, for the device count
\* and the array and status the driver gave.
accessors_result(num_devices, device_ids, status) ==
    LET first_invalid_element ==
            lower_bound(device_ids, 0, num_devices, cudaInvalidDeviceId)
    IN IF status # "success"
       THEN [outcome |-> throw_if_error(status), devices |-> <<>>]
       ELSE [outcome |-> "ok",
             devices |-> IF first_invalid_element # num_devices
                         THEN SubSeq(device_ids, 1, first_invalid_element)
                         ELSE device_ids]

\* memory::managed::accessors(region)
memory_managed_accessors ==
    /\ Idle
    /\ \E num_devices \in 0 .. NumDevices, status \in DriverStatus :
       \E device_ids \in AccessedByArrays(num_devices) :
         LET r == accessors_result(num_devices, device_ids, status)
         IN /\ lastOp' = [op |-> "accessors", num_devices |-> num_devices,
                          device_ids |-> device_ids,
                          calls |-> <<[fn |-> "cudaMemRangeGetAttribute"]>>,
                          outcome |-> r.outcome, devices |-> r.devices]
            /\ Throw(r.outcome)
    /\ UNCHANGED <<current, base, guards, envVars, proxyVars>>

\* ---------------------------------------------------------- kernel launch

\* The stream_t proxies a launch may be given: the default stream and the
\* created streams of every device.
Streams ==
    {stream_wrap(d, h, h # default_stream_handle) : d \in Devices, h \in Handles}

\* launch_configuration_t values handed to a launch.
LaunchConfigurations ==
    {[grid |-> 1, block |-> 1, dynamic_shared_memory |-> 0],
     [grid |-> 2, block |-> 32, dynamic_shared_memory |-> 16]}

\* The smallest of them.
OneBlock == [grid |-> 1, block |-> 1, dynamic_shared_memory |-> 0]

\* Kernel parameter packs handed to a launch.
ParameterPacks == {<<>>, <<7>>, <<7, 8>>}

\* The two shapes of a launch target: a kernel_t or a raw function pointer.
LaunchTargets ==
    {[wrapped |-> TRUE, kernel |-> k] : k \in Kernels}
    \cup {[wrapped |-> FALSE, fn |-> f] : f \in KernelPtrs}

\* got_a_wrapped_kernel: is_same<decay<Kernel>, kernel_t>
got_a_wrapped_kernel(target) == target.wrapped

\* default_stream wrapping the null handle as create_stream wraps a new one.
device_default_stream_owning(id_) ==
    stream_wrap(id_, default_stream_handle, do_take_ownership)

\* device_t::default_stream
device_default_stream(id_) ==
    stream_wrap(id_, default_stream_handle, do_not_take_ownership)

\* detail_::enqueue_launch(kernel_function, stream_handle, configuration,
\* parameters...): the raw enqueue primitive, one driver launch.
raw_enqueue_launch(kernel_function, stream_handle, launch_configuration, parameters, status) ==
    [outcome |-> throw_if_error(status),
     message |-> <<>>,
     calls   |-> <<[fn |-> "enqueue_launch",
                    kernel_function |-> kernel_function,
                    stream_handle |-> stream_handle,
                    launch_configuration |-> launch_configuration,
                    parameters |-> parameters]>>]

\* The wrapped-kernel overload forwarding with no device check.
detail_enqueue_launch_wrapped_unchecked(kernel, stream, launch_configuration, parameters, status) ==
    raw_enqueue_launch(kernel.ptr, stream.handle, launch_configuration,
                       parameters, status)

\* detail_::enqueue_launch(true_type, kernel, stream, configuration, ...)
detail_enqueue_launch_wrapped(kernel, stream, launch_configuration, parameters, status) ==
    IF kernel.device_id # stream.device_id
    THEN [outcome |-> "invalid_argument",
          message |-> <<kernel.device_id, stream.device_id>>,
          calls   |-> <<>>]
    ELSE raw_enqueue_launch(kernel.ptr, stream.handle, launch_configuration,
                            parameters, status)

\* The raw-function overload enqueueing on the null stream whatever stream
\* it was given.
detail_enqueue_launch_raw_on_default(kernel_function, stream, launch_configuration, parameters, status) ==
    raw_enqueue_launch(kernel_function, default_stream_handle,
                       launch_configuration, parameters, status)

\* detail_::enqueue_launch(false_type, kernel_function, stream, ...)
detail_enqueue_launch_raw(kernel_function, stream, launch_configuration, parameters, status) ==
    raw_enqueue_launch(kernel_function, stream.handle, launch_configuration,
                       parameters, status)

\* enqueue_launch(kernel, stream, configuration, parameters...): the result
enqueue_launch_result(target, stream, launch_configuration, parameters, status) ==
    IF got_a_wrapped_kernel(target)
    THEN detail_enqueue_launch_wrapped(
             target.kernel, stream, launch_configuration, parameters, status)
    ELSE detail_enqueue_launch_raw(
             target.fn, stream, launch_configuration, parameters, status)

\* enqueue_launch
enqueue_launch(target, stream, launch_configuration, parameters) ==
    /\ Idle
    /\ \E status \in DriverStatus :
         LET r == enqueue_launch_result(
                      target, stream, launch_configuration, parameters, status)
         IN /\ lastOp' = [op |-> "enqueue_launch", target |-> target,
                          stream |-> stream,
                          launch_configuration |-> launch_configuration,
                          parameters |-> parameters, ambient |-> current,
                          outcome |-> r.outcome, message |-> r.message,
                          calls |-> r.calls]
            /\ Throw(r.outcome)
    /\ UNCHANGED <<current, base, guards, envVars, proxyVars>>

\* get_implicit_device ignoring the kernel's own device.
detail_get_implicit_device_current(target, ambient) == ambient

\* detail_::get_implicit_device, with its specialisation for kernel_t;
\* device::current::get() is the ambient device.
detail_get_implicit_device(target, ambient) ==
    IF got_a_wrapped_kernel(target) THEN target.kernel.device_id ELSE ambient

\* launch taking the default stream of the current device for every kind
\* of kernel.
launch_on_current_device(target, launch_configuration, parameters) ==
    /\ Idle
    /\ \E status \in DriverStatus :
         LET stream == device_default_stream(current)
             r == enqueue_launch_result(
                      target, stream, launch_configuration, parameters, status)
         IN /\ lastOp' = [op |-> "launch", target |-> target,
                          stream |-> stream,
                          launch_configuration |-> launch_configuration,
                          parameters |-> parameters, ambient |-> current,
                          outcome |-> r.outcome, message |-> r.message,
                          calls |-> r.calls]
            /\ Throw(r.outcome)
    /\ UNCHANGED <<current, base, guards, envVars, proxyVars>>

\* launch
launch(target, launch_configuration, parameters) ==
    /\ Idle
    /\ \E status \in DriverStatus :
         LET device == detail_get_implicit_device(target, current)
             stream == device_default_stream(device)
             r == enqueue_launch_result(
                      target, stream, launch_configuration, parameters, status)
         IN /\ lastOp' = [op |-> "launch", target |-> target,
                          stream |-> stream,
                          launch_configuration |-> launch_configuration,
                          parameters |-> parameters, ambient |-> current,
                          outcome |-> r.outcome, message |-> r.message,
                          calls |-> r.calls]
            /\ Throw(r.outcome)
    /\ UNCHANGED <<current, base, guards, envVars, proxyVars>>

\* ----------------------------------------------------------- handle proxies

\* event::detail_::wrap(device_id, handle, take_ownership)
event_wrap(device_id, handle, take_ownership) ==
    [kind |-> "event", device_id |-> device_id, handle |-> handle,
     owning |-> take_ownership, moved_from |-> FALSE]

\* kernel::detail_::wrap: a kernel_t has no ownership flag and a defaulted
\* destructor, so it is a proxy that never owns.
kernel_wrap(device_id, f) ==
    [kind |-> "kernel", device_id |-> device_id, handle |-> f,
     owning |-> FALSE, moved_from |-> FALSE]

\* A proxy's move constructor: ownership goes to the new proxy and the
\* source's flag is cleared.
handle_proxy_move(p) ==
    [source |-> [p EXCEPT !.owning = FALSE, !.moved_from = TRUE],
     target |-> [p EXCEPT !.moved_from = FALSE]]

\* A proxy's copy constructor: another reference to the same handle, never
\* a second owner.
handle_proxy_copy(p) == [p EXCEPT !.owning = FALSE, !.moved_from = FALSE]

\* A proxy's destructor: the driver destroy calls after it has run.
handle_proxy_dtor(p, calls) ==
    IF p.owning THEN [calls EXCEPT ![p.handle] = @ + 1] ELSE calls

LowestFreeSlot == CHOOSE i \in FreeSlots : \A j \in FreeSlots : i <= j

\* The caller takes device_t::default_stream() into a variable.
device_default_stream_call(id_) ==
    /\ Idle
    /\ FreeSlots # {}
    /\ proxies' = [proxies EXCEPT ![LowestFreeSlot] = device_default_stream(id_)]
    /\ lastOp' = [op |-> "default_stream", device |-> id_, calls |-> <<>>,
                  outcome |-> "ok"]
    /\ UNCHANGED <<ambientVars, envVars, nextHandle, destroyCalls, resources>>

\* import wrapping the opened event as an owner.
event_ipc_import_owning(device_id) ==
    /\ Idle
    /\ FreeSlots # {}
    /\ nextHandle <= MaxHandles
    /\ \E status \in DriverStatus :
         /\ lastOp' = [op |-> "ipc_import", device |-> device_id,
                       calls |-> <<[fn |-> "cudaIpcOpenEventHandle"]>>,
                       outcome |-> throw_if_error(status)]
         /\ IF status = "success"
            THEN /\ proxies' = [proxies EXCEPT ![LowestFreeSlot] =
                         event_wrap(device_id, nextHandle, do_take_ownership)]
                 /\ nextHandle' = nextHandle + 1
                 /\ resources' = [resources EXCEPT ![nextHandle] = "imported_event"]
            ELSE UNCHANGED <<proxies, nextHandle, resources>>
         /\ Throw(throw_if_error(status))
    /\ UNCHANGED <<current, base, guards, envVars, destroyCalls>>

\* event::ipc::import
event_ipc_import(device_id) ==
    /\ Idle
    /\ FreeSlots # {}
    /\ nextHandle <= MaxHandles
    /\ \E status \in DriverStatus :
         /\ lastOp' = [op |-> "ipc_import", device |-> device_id,
                       calls |-> <<[fn |-> "cudaIpcOpenEventHandle"]>>,
                       outcome |-> throw_if_error(status)]
         /\ IF status = "success"
            THEN /\ proxies' = [proxies EXCEPT ![LowestFreeSlot] =
                         event_wrap(device_id, nextHandle, do_not_take_ownership)]
                 /\ nextHandle' = nextHandle + 1
                 /\ resources' = [resources EXCEPT ![nextHandle] = "imported_event"]
            ELSE UNCHANGED <<proxies, nextHandle, resources>>
         /\ Throw(throw_if_error(status))
    /\ UNCHANGED <<current, base, guards, envVars, destroyCalls>>

\* kernel::wrap(device, function_ptr)
kernel_wrap_call(device_id, f) ==
    /\ Idle
    /\ FreeSlots # {}
    /\ proxies' = [proxies EXCEPT ![LowestFreeSlot] = kernel_wrap(device_id, f)]
    /\ lastOp' = [op |-> "kernel_wrap", device |-> device_id, calls |-> <<>>,
                  outcome |-> "ok"]
    /\ UNCHANGED <<ambientVars, envVars, nextHandle, destroyCalls, resources>>

\* device_t::launch: the launch goes through a temporary default_stream()
\* proxy, which is destroyed when the call is over.
device_launch(id_, target, launch_configuration, parameters) ==
    /\ Idle
    /\ \E status \in DriverStatus :
         LET stream == device_default_stream(id_)
             r == enqueue_launch_result(
                      target, stream, launch_configuration, parameters, status)
         IN /\ lastOp' = [op |-> "device_launch", target |-> target,
                          stream |-> stream,
                          launch_configuration |-> launch_configuration,
                          parameters |-> parameters, ambient |-> current,
                          outcome |-> r.outcome, message |-> r.message,
                          calls |-> r.calls]
            /\ destroyCalls' = handle_proxy_dtor(stream, destroyCalls)
            /\ Throw(r.outcome)
    /\ UNCHANGED <<current, base, guards, envVars, proxies, nextHandle, resources>>

\* The caller move-constructs a new proxy from the one in slot i.
Move(i) ==
    /\ ~unwinding
    /\ proxies[i] # NoProxy
    /\ FreeSlots # {}
    /\ LET m == handle_proxy_move(proxies[i])
       IN proxies' = [proxies EXCEPT ![i] = m.source,
                                     ![LowestFreeSlot] = m.target]
    /\ UNCHANGED <<ambientVars, envVars, lastOp, nextHandle, destroyCalls, resources>>

\* The caller copy-constructs a new proxy from the one in slot i.
Copy(i) ==
    /\ ~unwinding
    /\ proxies[i] # NoProxy
    /\ FreeSlots # {}
    /\ proxies' = [proxies EXCEPT ![LowestFreeSlot] = handle_proxy_copy(proxies[i])]
    /\ UNCHANGED <<ambientVars, envVars, lastOp, nextHandle, destroyCalls, resources>>

\* The proxy in slot i reaches the end of its life.
Destroy(i) ==
    /\ proxies[i] # NoProxy
    /\ destroyCalls' = handle_proxy_dtor(proxies[i], destroyCalls)
    /\ proxies' = [proxies EXCEPT ![i] = NoProxy]
    /\ lastOp' = [op |-> "destroy", proxy |-> proxies[i],
                  released |-> (destroyCalls' # destroyCalls),
                  calls |-> <<>>, outcome |-> "ok"]
    /\ UNCHANGED <<ambientVars, envVars, nextHandle, resources>>

\* ------------------------------------------------------ streams and events

\* The native handle of the stream created on device d, and of its event.
StreamHandleOf(d) == d + 1
EventHandleOf(d) == d + 1
\* The device an event handle was created on.
EventDeviceOf(event_handle) == event_handle - 1

\* The driver's streams: the null stream and one created stream per device.
DriverStreams ==
    UNION {{[device_id |-> d, handle |-> h] :
               h \in {default_stream_handle, StreamHandleOf(d)}} : d \in Devices}

\* The stream_t proxies of those streams, and the event_t proxies.
EventStreams ==
    {stream_wrap(k.device_id, k.handle, k.handle # default_stream_handle) :
         k \in DriverStreams}
Events == {event_wrap(d, EventHandleOf(d), do_take_ownership) : d \in Devices}

NoQueues == [k \in DriverStreams |-> [ops |-> <<>>, done |-> 0]]

\* The driver stream a stream_t proxy stands for.
StreamKey(stream) == [device_id |-> stream.device_id, handle |-> stream.handle]

\* The driver stream a native handle denotes in a driver call: the null
\* handle is the null stream of the calling thread's current device.
ResolveStream(ambient, stream_handle) ==
    IF stream_handle = default_stream_handle
    THEN [device_id |-> ambient, handle |-> default_stream_handle]
    ELSE [device_id |-> stream_handle - 1, handle |-> stream_handle]

TotalQueued ==
    Cardinality({<<k, i>> \in DriverStreams \X (1 .. MaxQueued) :
                     i <= Len(queues[k].ops)})
Room == TotalQueued < MaxQueued

Enqueue(key, operation) ==
    [queues EXCEPT ![key].ops = Append(@, operation)]

\* A stream is synchronized once all it accepted has completed.
Drained(key) == queues[key].done = Len(queues[key].ops)

\* cudaEventRecord(event_handle, stream_handle) called with the given
\* current device: the runtime refuses an event of another device than the
\* stream's, and otherwise takes the record into the stream's queue.
cudaEventRecord(ambient, event_handle, stream_handle, status) ==
    LET key == ResolveStream(ambient, stream_handle)
        result == IF EventDeviceOf(event_handle) # key.device_id
                  THEN "error" ELSE status
    IN [status |-> result,
        key |-> key,
        position |-> Len(queues[key].ops) + 1,
        queues |-> IF result = "success"
                   THEN Enqueue(key, [kind |-> "event_record",
                                      event |-> event_handle])
                   ELSE queues,
        call |-> [fn |-> "cudaEventRecord", event_handle |-> event_handle,
                  stream_handle |-> stream_handle, ambient |-> ambient]]

\* event_t::record(stream), as a result: event::detail_::enqueue on the
\* stream's handle and this event's handle, in the ambient device.
event_record_result(ambient, event, stream, status) ==
    LET d == cudaEventRecord(ambient, event.handle, stream.handle, status)
    IN [outcome |-> throw_if_error(d.status), calls |-> <<d.call>>,
        key |-> d.key, position |-> d.position, queues |-> d.queues]

\* event_t::record(stream)
event_record(event, stream) ==
    /\ Idle
    /\ \E status \in DriverStatus :
         LET r == event_record_result(current, event, stream, status)
         IN /\ r.outcome = "ok" => Room
            /\ queues' = r.queues
            /\ lastOp' = [op |-> "record", event |-> event, stream |-> stream,
                          ambient |-> current, key |-> r.key,
                          position |-> r.position,
                          outcome |-> r.outcome, calls |-> r.calls]
            /\ Throw(r.outcome)
    /\ UNCHANGED <<current, base, guards, cudart, hw, ndebug, funcAttr, proxyVars>>

\* event_t::fire returning right after the record.
event_fire_record_only(event, stream) ==
    /\ Idle
    /\ \E status \in DriverStatus :
         LET r == event_record_result(current, event, stream, status)
             own == StreamKey(stream)
         IN /\ r.outcome = "ok" => Room
            /\ queues' = r.queues
            /\ lastOp' = [op |-> "fire", event |-> event, stream |-> stream,
                          ambient |-> current, key |-> r.key,
                          position |-> r.position,
                          enqueued_before |-> Len(queues[own].ops),
                          pending_before |->
                              Len(queues[own].ops) - queues[own].done,
                          stage |-> IF r.outcome = "ok" THEN "returned"
                                    ELSE "threw",
                          outcome |-> r.outcome, calls |-> r.calls]
            /\ Throw(r.outcome)
    /\ UNCHANGED <<current, base, guards, cudart, hw, ndebug, funcAttr, proxyVars>>

\* event_t::fire(stream), up to its blocking point: record(stream), and, when
\* that did not throw, the entry into stream.synchronize().
event_fire(event, stream) ==
    /\ Idle
    /\ \E status \in DriverStatus :
         LET r == event_record_result(current, event, stream, status)
             own == StreamKey(stream)
         IN /\ r.outcome = "ok" => Room
            /\ queues' = r.queues
            /\ lastOp' = [op |-> "fire", event |-> event, stream |-> stream,
                          ambient |-> current, key |-> r.key,
                          position |-> r.position,
                          enqueued_before |-> Len(queues[own].ops),
                          pending_before |->
                              Len(queues[own].ops) - queues[own].done,
                          stage |-> IF r.outcome = "ok" THEN "synchronizing"
                                    ELSE "threw",
                          outcome |-> r.outcome, calls |-> r.calls]
            /\ Throw(r.outcome)
    /\ UNCHANGED <<current, base, guards, cudart, hw, ndebug, funcAttr, proxyVars>>

\* stream_t::synchronize(): under a scoped override for the stream's device,
\* cudaStreamSynchronize on its handle, which returns once the stream has
\* drained; [the driver stream waited for, the call].
stream_synchronize(ambient, stream) ==
    LET g == scoped_override_ctor(ambient, stream.device_id)
    IN [key |-> ResolveStream(g.ambient, stream.handle),
        call |-> [fn |-> "cudaStreamSynchronize",
                  stream_handle |-> stream.handle, ambient |-> g.ambient],
        restored |-> scoped_override_dtor(g)]

\* event_t::fire(stream), from its blocking point on: stream.synchronize()
\* comes back, with the stream drained or with a driver error, and fire
\* returns or throws.
event_fire_synchronized ==
    /\ ~unwinding
    /\ Blocked
    /\ LET w == stream_synchronize(current, lastOp.stream)
       IN \E status \in DriverStatus :
            /\ status = "success" => Drained(w.key)
            /\ lastOp' = [lastOp EXCEPT !.stage = "returned",
                                        !.outcome = throw_if_error(status),
                                        !.calls = Append(@, w.call)]
            /\ current' = w.restored
            /\ Throw(throw_if_error(status))
    /\ UNCHANGED <<base, guards, envVars, proxyVars>>

\* stream_t::enqueue_t::event(existing_event)
stream_enqueue_event(stream, existing_event) ==
    /\ Idle
    /\ IF existing_event.device_id # stream.device_id
       THEN /\ lastOp' = [op |-> "enqueue_event", event |-> existing_event,
                          stream |-> stream, ambient |-> current,
                          key |-> StreamKey(stream), position |-> 0,
                          outcome |-> "invalid_argument", calls |-> <<>>]
            /\ Throw("invalid_argument")
            /\ UNCHANGED <<current, queues>>
       ELSE \E status \in DriverStatus :
              LET g == scoped_override_ctor(current, stream.device_id)
                  r == event_record_result(g.ambient, existing_event, stream,
                                           status)
              IN /\ r.outcome = "ok" => Room
                 /\ queues' = r.queues
                 /\ lastOp' = [op |-> "enqueue_event",
                               event |-> existing_event, stream |-> stream,
                               ambient |-> current, key |-> r.key,
                               position |-> r.position,
                               outcome |-> r.outcome, calls |-> r.calls]
                 /\ current' = scoped_override_dtor(g)
                 /\ Throw(r.outcome)
    /\ UNCHANGED <<base, guards, cudart, hw, ndebug, funcAttr, proxyVars>>

\* enqueue_launch of a raw kernel function, with the stream's queue: the
\* runtime refuses a launch on a stream of another device than the current
\* one, and otherwise takes the kernel into the stream's queue.
enqueue_launch_queued(kernel_function, stream) ==
    /\ Idle
    /\ \E status \in DriverStatus :
         LET key == ResolveStream(current, stream.handle)
             result == IF key.device_id # current THEN "error" ELSE status
             r == enqueue_launch_result(
                      [wrapped |-> FALSE, fn |-> kernel_function], stream,
                      OneBlock, <<>>, result)
         IN /\ r.outcome = "ok" => Room
            /\ queues' = IF r.outcome = "ok"
                         THEN Enqueue(key, [kind |-> "kernel",
                                            event |-> kernel_function])
                         ELSE queues
            /\ lastOp' = [op |-> "enqueue_launch", stream |-> stream,
                          ambient |-> current, key |-> key,
                          outcome |-> r.outcome, calls |-> r.calls]
            /\ Throw(r.outcome)
    /\ UNCHANGED <<current, base, guards, cudart, hw, ndebug, funcAttr, proxyVars>>

\* The device completes the oldest pending operation of a stream.
driver_execute(key) ==
    /\ ~Drained(key)
    /\ queues' = [queues EXCEPT ![key].done = @ + 1]
    /\ UNCHANGED <<ambientVars, cudart, hw, ndebug, funcAttr, lastOp, proxyVars>>

\* ------------------------------------------------- nested scoped overrides

InitAmbient ==
    /\ current = default_device
    /\ base = current
    /\ guards = <<>>
    /\ unwinding = FALSE
    /\ thrownAt = 0
    /\ cudart = 10010
    /\ lastOp = NoOp
    /\ proxies = [i \in ProxyIds |-> NoProxy]
    /\ nextHandle = 1
    /\ destroyCalls = [h \in Handles |-> 0]
    /\ resources = NoResources
    /\ hw = SomeHardware
    /\ queues = NoQueues
    /\ ndebug = FALSE
    /\ funcAttr = NoSet

NextAmbient ==
    \/ \E d \in Devices : EnterOverride(d)
    \/ ExitOverride
    \/ Catch
    \/ Return
    \/ Idle /\ \E k \in Kernels, a \in ReadAttributes : kernel_get_attribute(k, a)
    \/ Idle /\ \E d \in Devices : device_create_stream(d)

SpecAmbient == InitAmbient /\ [][NextAmbient]_vars

\* The wrapper calls that construct a scoped override.
OverridingOps == {"get_attribute", "create_stream"}

\* C1: over every nesting of scoped overrides, entered by the caller or
\* inside a wrapper call, with or without a failing driver call, the ambient
\* current device is the base value once no guard is alive, every guard
\* alive holds the value it replaced (the base value, or the target of the
\* guard below it), and the ambient value is the innermost guard's target.
C1_OverridesRestore ==
    /\ guards = <<>> => current = base
    /\ guards # <<>> => current = guards[Len(guards)].ambient
    /\ \A i \in 1 .. Len(guards) :
         guards[i].previous = IF i = 1 THEN base ELSE guards[i - 1].ambient

\* C1 witness: a wrapper call made inside nested overrides failed in the
\* driver, which it had called with a device other than the base one active;
\* the exception unwound every guard, and the ambient device is the one from
\* before the outermost entry.
C1_Witness ==
    /\ lastOp.op \in OverridingOps
    /\ lastOp.outcome = "driver_error"
    /\ lastOp.calls[1].device # base
    /\ unwinding
    /\ thrownAt = MaxDepth
    /\ guards = <<>>
    /\ current = base

\* ------------------------------------------------------ launch dispatcher

NextLaunch ==
    \/ \E d \in Devices : EnterOverride(d)
    \/ ExitOverride
    \/ Catch
    \/ Return
    \/ Idle /\ \E t \in LaunchTargets, st \in Streams,
          c \in LaunchConfigurations, ps \in ParameterPacks :
            enqueue_launch(t, st, c, ps)
    \/ Idle /\ \E t \in LaunchTargets,
          c \in LaunchConfigurations, ps \in ParameterPacks :
            launch(t, c, ps)

SpecLaunch == InitAmbient /\ [][NextLaunch]_vars

LaunchOps == {"enqueue_launch", "launch"}

\* C2: an enqueue_launch of a kernel_t whose device differs from the stream's
\* device ends in invalid_argument, its message naming the kernel's and the
\* stream's device, with the raw enqueue primitive not called; when the
\* devices match the raw enqueue primitive is called exactly once.
C2_DeviceMismatchRejected ==
    (lastOp.op \in LaunchOps /\ lastOp.target.wrapped) =>
        IF lastOp.target.kernel.device_id # lastOp.stream.device_id
        THEN /\ lastOp.outcome = "invalid_argument"
             /\ lastOp.message = <<lastOp.target.kernel.device_id,
                                   lastOp.stream.device_id>>
             /\ lastOp.calls = <<>>
        ELSE /\ lastOp.outcome # "invalid_argument"
             /\ Len(lastOp.calls) = 1
             /\ lastOp.calls[1].fn = "enqueue_launch"

\* C2 witness: a kernel_t of one device was enqueued on a stream of another
\* and rejected.
C2_Witness ==
    /\ lastOp.op = "enqueue_launch"
    /\ lastOp.target.wrapped
    /\ lastOp.target.kernel.device_id # lastOp.stream.device_id
    /\ lastOp.outcome = "invalid_argument"
    /\ unwinding

TargetFunction(target) ==
    IF target.wrapped THEN target.kernel.ptr ELSE target.fn

\* C10: an enqueue_launch of a raw function is never rejected as an invalid
\* argument, whatever the devices; it and the enqueue_launch of a kernel_t on
\* a stream of its device make the same single call of the raw enqueue
\* primitive: the target's function, the stream's handle, the launch
\* configuration and the parameters as given.
C10_SameRawPrimitive ==
    (/\ lastOp.op \in LaunchOps
     /\ \/ ~lastOp.target.wrapped
        \/ lastOp.target.kernel.device_id = lastOp.stream.device_id) =>
        /\ lastOp.outcome # "invalid_argument"
        /\ lastOp.calls =
               <<[fn |-> "enqueue_launch",
                  kernel_function |-> TargetFunction(lastOp.target),
                  stream_handle |-> lastOp.stream.handle,
                  launch_configuration |-> lastOp.launch_configuration,
                  parameters |-> lastOp.parameters]>>

\* C10 witness: a raw function was enqueued, with parameters, on a created
\* stream of a device that is not the current one.
C10_Witness ==
    /\ lastOp.op = "enqueue_launch"
    /\ ~lastOp.target.wrapped
    /\ lastOp.stream.device_id # lastOp.ambient
    /\ lastOp.stream.handle # default_stream_handle
    /\ lastOp.parameters # <<>>
    /\ lastOp.outcome = "ok"
    /\ Len(lastOp.calls) = 1

\* ------------------------------------------------------ attribute setters

InitAttr ==
    /\ current = default_device
    /\ base = current
    /\ guards = <<>>
    /\ unwinding = FALSE
    /\ thrownAt = 0
    /\ cudart \in CudartVersions
    /\ lastOp = NoOp
    /\ proxies = [i \in ProxyIds |-> NoProxy]
    /\ nextHandle = 1
    /\ destroyCalls = [h \in Handles |-> 0]
    /\ resources = NoResources
    /\ hw = SomeHardware
    /\ queues = NoQueues
    /\ ndebug = FALSE
    /\ funcAttr = NoSet

NextAttr ==
    \/ \E d \in Devices : EnterOverride(d)
    \/ ExitOverride
    \/ Catch
    \/ Return
    \/ Idle /\ \E k \in Kernels, a \in SetAttributes, v \in Values :
            kernel_set_attribute(k, a, v)
    \/ Idle /\ \E k \in Kernels, v \in Values :
            kernel_set_preferred_shared_mem_fraction(k, v)

SpecAttr == InitAttr /\ [][NextAttr]_vars

\* The calls that set the shared-memory carve-out percentage.
SetsCarveout ==
    /\ lastOp.op \in {"set_attribute", "set_preferred_shared_mem_fraction"}
    /\ lastOp.attribute = PreferredSharedMemoryCarveoutAttribute

\* C3: setting the carve-out percentage to more than 100, through
\* set_attribute or through set_preferred_shared_mem_fraction, ends in
\* invalid_argument with no driver call made; for 0 to 100 it is not rejected
\* and, where the toolkit has the call, the driver set-attribute call is made.
C3_CarveoutValidated ==
    SetsCarveout =>
        IF lastOp.value > MaxPercentage
        THEN lastOp.outcome = "invalid_argument" /\ lastOp.calls = <<>>
        ELSE /\ lastOp.outcome # "invalid_argument"
             /\ cudart >= 9000 => Len(lastOp.calls) = 1

\* The part of C3 the code keeps: the same statement of
\* set_preferred_shared_mem_fraction alone.
C3_FractionValidated ==
    (SetsCarveout /\ lastOp.op = "set_preferred_shared_mem_fraction") =>
        IF lastOp.value > MaxPercentage
        THEN lastOp.outcome = "invalid_argument" /\ lastOp.calls = <<>>
        ELSE /\ lastOp.outcome # "invalid_argument"
             /\ cudart >= 9000 => Len(lastOp.calls) = 1

\* ----------------------------------------------------- proxies' lifetimes

NextProxy ==
    \/ Catch
    \/ Return
    \/ Idle /\ \E d \in Devices : device_default_stream_call(d)
    \/ Idle /\ device_create_stream(default_device)
    \/ Idle /\ event_ipc_import(default_device)
    \/ Idle /\ \E f \in KernelPtrs : kernel_wrap_call(default_device, f)
    \/ Idle /\ \E d \in Devices, f \in KernelPtrs :
            device_launch(d, [wrapped |-> FALSE, fn |-> f], OneBlock, <<>>)
    \/ \E i \in ProxyIds : Move(i)
    \/ \E i \in ProxyIds : Copy(i)
    \/ \E i \in ProxyIds : Destroy(i)

SpecProxy == InitAmbient /\ [][NextProxy]_vars

\* The live proxies of the native handle h (kernel proxies hold function
\* pointers, not handles).
ProxiesOf(h) ==
    {i \in ProxyIds : /\ proxies[i] # NoProxy
                      /\ proxies[i].kind # "kernel"
                      /\ proxies[i].handle = h}
Owners(h) == {i \in ProxiesOf(h) : proxies[i].owning}

\* C4: no driver destroy call is ever issued for the default stream handle,
\* however many proxies of it are made, copied, moved and destroyed, by the
\* caller or inside device_t::launch; no proxy of it is an owner, so every
\* proxy of it that is left refers to a stream that still exists.
C4_DefaultStreamNeverOwned ==
    /\ destroyCalls[default_stream_handle] = 0
    /\ Owners(default_stream_handle) = {}
    /\ (lastOp.op = "destroy" /\ lastOp.proxy.kind = "stream"
        /\ lastOp.proxy.handle = default_stream_handle) => ~lastOp.released

\* C4 witness: of two proxies of one device's default stream one has been
\* destroyed and the other is still held.
C4_Witness ==
    /\ lastOp.op = "destroy"
    /\ lastOp.proxy.kind = "stream"
    /\ lastOp.proxy.handle = default_stream_handle
    /\ \E i \in ProxiesOf(default_stream_handle) :
            proxies[i].device_id = lastOp.proxy.device_id
    /\ destroyCalls[default_stream_handle] = 0

\* C5: a stream made by create_stream has, at every moment, either exactly
\* one owning proxy and no destroy call, or no owning proxy and exactly one
\* destroy call; a moved-from proxy is no owner and its destruction releases
\* nothing; the handles of imported events and of the default stream are
\* never destroyed, and destroying a kernel_t releases nothing.
C5_ReleasedExactlyOnce ==
    /\ \A h \in Handles :
         IF resources[h] = "stream"
         THEN Cardinality(Owners(h)) + destroyCalls[h] = 1
         ELSE Owners(h) = {} /\ destroyCalls[h] = 0
    /\ \A i \in ProxyIds :
         (proxies[i] # NoProxy /\ (proxies[i].moved_from \/ proxies[i].kind = "kernel"))
             => ~proxies[i].owning
    /\ lastOp.op = "destroy" =>
         /\ lastOp.released = lastOp.proxy.owning
         /\ lastOp.proxy.moved_from => ~lastOp.released

\* C5 witness: a created stream was moved; the proxy that received it was
\* destroyed and released the stream, and then the moved-from proxy was
\* destroyed and released nothing: one destroy call in all.
C5_Witness ==
    /\ lastOp.op = "destroy"
    /\ lastOp.proxy.kind = "stream"
    /\ lastOp.proxy.moved_from
    /\ ~lastOp.released
    /\ resources[lastOp.proxy.handle] = "stream"
    /\ destroyCalls[lastOp.proxy.handle] = 1
    /\ ProxiesOf(lastOp.proxy.handle) = {}

\* ------------------------------------------------- occupancy calculator

InitOccupancy ==
    /\ current = default_device
    /\ base = current
    /\ guards = <<>>
    /\ unwinding = FALSE
    /\ thrownAt = 0
    /\ cudart \in CudartVersions
    /\ lastOp = NoOp
    /\ proxies = [i \in ProxyIds |-> NoProxy]
    /\ nextHandle = 1
    /\ destroyCalls = [h \in Handles |-> 0]
    /\ resources = NoResources
    /\ hw \in Hardware
    /\ queues = NoQueues
    /\ ndebug = FALSE
    /\ funcAttr = NoSet

NextOccupancy ==
    \/ Catch
    \/ Return
    \/ Idle /\ \E k \in Kernels, c \in SmemSizes, l \in BlockSizeLimits, f \in BOOLEAN :
            kernel_min_grid_params_fixed(k, c, l, f)
    \/ Idle /\ \E k \in Kernels, u \in [BlockSizes -> SmemSizes],
          l \in BlockSizeLimits, f \in BOOLEAN :
            kernel_min_grid_params_unary(k, u, l, f)

SpecOccupancy == InitOccupancy /\ [][NextOccupancy]_vars

\* What a min_grid_params_for_max_occupancy call gives its caller.
Answer(r) == [outcome |-> r.outcome, grid |-> r.grid, block |-> r.block]

\* C6: a call of the fixed-size form with shared memory size c gives the
\* (grid size, block size) pair, or the failure, that the unary-function form
\* gives for the function that is c at every block size; and a call of the
\* unary-function form with such a function gives what the fixed-size form
\* gives for c.
C6_FixedEqualsConstantFunction ==
    /\ lastOp.op = "min_grid_params_fixed" =>
         Answer(lastOp) =
             Answer(detail_min_grid_params_unary(
                        lastOp.kernel.ptr, lastOp.kernel.device_id,
                        [b \in BlockSizes |-> lastOp.smem],
                        lastOp.block_size_limit,
                        lastOp.disable_caching_override))
    /\ lastOp.op = "min_grid_params_unary" =>
         \A c \in SmemSizes :
             lastOp.smem = [b \in BlockSizes |-> c] =>
                 Answer(lastOp) =
                     Answer(detail_min_grid_params_fixed(
                                lastOp.kernel.ptr, lastOp.kernel.device_id, c,
                                lastOp.block_size_limit,
                                lastOp.disable_caching_override))

\* C6 witness: the fixed-size form was called with a shared memory size that
\* lowers the occupancy, and gave a grid: for no shared memory the answer
\* would have been another one.
C6_Witness ==
    /\ lastOp.op = "min_grid_params_fixed"
    /\ lastOp.outcome = "ok"
    /\ lastOp.smem > 0
    /\ Answer(lastOp) #
           Answer(detail_min_grid_params_unary(
                      lastOp.kernel.ptr, lastOp.kernel.device_id,
                      [b \in BlockSizes |-> 0], lastOp.block_size_limit,
                      lastOp.disable_caching_override))

\* ------------------------------------------------------ events on streams

\* The calling thread has some device current; no stream holds anything.
InitEvent ==
    /\ current \in Devices
    /\ base = current
    /\ guards = <<>>
    /\ unwinding = FALSE
    /\ thrownAt = 0
    /\ cudart = 10010
    /\ lastOp = NoOp
    /\ proxies = [i \in ProxyIds |-> NoProxy]
    /\ nextHandle = 1
    /\ destroyCalls = [h \in Handles |-> 0]
    /\ resources = NoResources
    /\ hw = SomeHardware
    /\ queues = NoQueues
    /\ ndebug = FALSE
    /\ funcAttr = NoSet

NextEvent ==
    \/ Catch
    \/ Return
    \/ event_fire_synchronized
    \/ \E k \in DriverStreams : driver_execute(k)
    \/ Idle /\ \E e \in Events, s \in EventStreams : event_record(e, s)
    \/ Idle /\ \E e \in Events, s \in EventStreams : event_fire(e, s)
    \/ Idle /\ \E e \in Events, s \in EventStreams : stream_enqueue_event(s, e)
    \/ Idle /\ \E f \in KernelPtrs, s \in EventStreams : enqueue_launch_queued(f, s)

SpecEvent == InitEvent /\ [][NextEvent]_vars

\* The driver call event_t::record makes for an event and a stream.
RecordCall(op) ==
    [fn |-> "cudaEventRecord", event_handle |-> op.event.handle,
     stream_handle |-> op.stream.handle, ambient |-> op.ambient]

\* The driver call stream.synchronize() makes.
SynchronizeCall(op) ==
    [fn |-> "cudaStreamSynchronize", stream_handle |-> op.stream.handle,
     ambient |-> op.stream.device_id]

\* C7: event_t::fire(stream) first makes the record call for the event and
\* the stream's handle, and only then the synchronize call for the stream;
\* when it returns normally, every operation the stream held when fire was
\* called has completed, and so has the record of an event of the stream's
\* own device.
C7_FireRecordsThenSynchronizes ==
    lastOp.op = "fire" =>
        /\ lastOp.calls[1] = RecordCall(lastOp)
        /\ lastOp.stage = "synchronizing" => lastOp.calls = <<RecordCall(lastOp)>>
        /\ (lastOp.stage = "returned" /\ lastOp.outcome = "ok") =>
             /\ lastOp.calls = <<RecordCall(lastOp), SynchronizeCall(lastOp)>>
             /\ queues[StreamKey(lastOp.stream)].done >= lastOp.enqueued_before
             /\ lastOp.event.device_id = lastOp.stream.device_id =>
                  /\ lastOp.key = StreamKey(lastOp.stream)
                  /\ queues[lastOp.key].ops[lastOp.position] =
                         [kind |-> "event_record", event |-> lastOp.event.handle]
                  /\ queues[lastOp.key].done >= lastOp.position

\* C7 witness: fire was called on a stream with an operation still pending,
\* and has returned normally.
C7_Witness ==
    /\ lastOp.op = "fire"
    /\ lastOp.stage = "returned"
    /\ lastOp.outcome = "ok"
    /\ lastOp.pending_before > 0
    /\ lastOp.event.device_id = lastOp.stream.device_id

\* The operations that enqueue an event against a stream.
EventOps == {"record", "fire", "enqueue_event"}

\* C8: an operation enqueueing an event against a stream of another device
\* is rejected with an invalid-argument error and makes no driver call.
C8_EventDeviceMismatchRejected ==
    (lastOp.op \in EventOps
     /\ lastOp.event.device_id # lastOp.stream.device_id) =>
        /\ lastOp.outcome = "invalid_argument"
        /\ lastOp.calls = <<>>

\* stream.enqueue.event(existing_event) alone keeps that rule.
C8_EnqueueEventRejects ==
    (lastOp.op = "enqueue_event"
     /\ lastOp.event.device_id # lastOp.stream.device_id) =>
        /\ lastOp.outcome = "invalid_argument"
        /\ lastOp.calls = <<>>

\* ------------------------------------------- toolkit-gated operations

NextGated ==
    \/ Catch
    \/ Return
    \/ Idle /\ \E k \in Kernels, v \in Values :
            kernel_set_preferred_shared_mem_fraction(k, v)
    \/ Idle /\ \E k \in Kernels, v \in SmemSizes :
            kernel_opt_in_to_extra_dynamic_memory(k, v)
    \/ Idle /\ \E k \in Kernels, c \in SmemSizes, l \in BlockSizeLimits, f \in BOOLEAN :
            kernel_min_grid_params_fixed(k, c, l, f)
    \/ Idle /\ \E k \in Kernels, u \in [BlockSizes -> SmemSizes],
          l \in BlockSizeLimits, f \in BOOLEAN :
            kernel_min_grid_params_unary(k, u, l, f)

SpecGated == InitAttr /\ [][NextGated]_vars

\* The last call was of a gated operation in a build whose toolkit lacks
\* the feature it needs.
FeatureLacking ==
    \/ /\ lastOp.op \in {"min_grid_params_fixed", "min_grid_params_unary"}
       /\ cudart <= 10000
    \/ /\ lastOp.op \in {"set_preferred_shared_mem_fraction",
                         "opt_in_to_extra_dynamic_memory"}
       /\ cudart < 9000

\* C11 as stated: a gated operation in a build lacking its feature fails
\* with not_yet_implemented and makes no driver call.
C11_GatedFailNotYetImplemented ==
    FeatureLacking =>
        /\ lastOp.outcome = "not_yet_implemented"
        /\ lastOp.calls = <<>>

\* C11, amended: a gated operation in a build lacking its feature never
\* returns normally and makes no driver call; it fails with
\* not_yet_implemented, except set_preferred_shared_mem_fraction with a
\* percentage above 100, which fails with invalid_argument first.
C11_GatedNeverSilent ==
    FeatureLacking =>
        /\ lastOp.calls = <<>>
        /\ IF /\ lastOp.op = "set_preferred_shared_mem_fraction"
              /\ lastOp.value > MaxPercentage
           THEN lastOp.outcome = "invalid_argument"
           ELSE lastOp.outcome = "not_yet_implemented"

\* C11 witness: set_preferred_shared_mem_fraction with a valid percentage
\* in a build without per-kernel attribute setting failed that way.
C11_Witness ==
    /\ FeatureLacking
    /\ lastOp.op = "set_preferred_shared_mem_fraction"
    /\ lastOp.value <= MaxPercentage
    /\ lastOp.outcome = "not_yet_implemented"
    /\ unwinding

\* ----------------------------------------------------------- device count

NextCount ==
    \/ \E d \in Devices : EnterOverride(d)
    \/ ExitOverride
    \/ Catch
    \/ Return
    \/ device_count_call

SpecCount == InitAmbient /\ [][NextCount]_vars

\* C12: device::count() returns 0 for the no-device status, throws the
\* driver's error for any other non-success status, throws a logic error for
\* a negative count reported with success, returns the reported count
\* otherwise, and never returns a negative value.
C12_CountNeverNegative ==
    lastOp.op = "count" =>
        /\ lastOp.status = "no_device" =>
             lastOp.outcome = "ok" /\ lastOp.value = 0
        /\ lastOp.status = "error" => lastOp.outcome = "driver_error"
        /\ (lastOp.status = "success" /\ lastOp.reported < 0) =>
             lastOp.outcome = "logic_error"
        /\ (lastOp.status = "success" /\ lastOp.reported >= 0) =>
             lastOp.outcome = "ok" /\ lastOp.value = lastOp.reported
        /\ lastOp.outcome = "ok" => lastOp.value >= 0

\* C12 witness: the driver reported success with a negative count and
\* count() threw the logic error.
C12_Witness ==
    /\ lastOp.op = "count"
    /\ lastOp.status = "success"
    /\ lastOp.reported < 0
    /\ lastOp.outcome = "logic_error"
    /\ unwinding

\* ------------------------------------------------------- attribute reads

\* A debug or an NDEBUG build, the default device current.
InitRead ==
    /\ current = default_device
    /\ base = current
    /\ guards = <<>>
    /\ unwinding = FALSE
    /\ thrownAt = 0
    /\ cudart = 10010
    /\ lastOp = NoOp
    /\ proxies = [i \in ProxyIds |-> NoProxy]
    /\ nextHandle = 1
    /\ destroyCalls = [h \in Handles |-> 0]
    /\ resources = NoResources
    /\ hw = SomeHardware
    /\ queues = NoQueues
    /\ ndebug \in BOOLEAN
    /\ funcAttr = NoSet

NextRead ==
    \/ \E d \in Devices : EnterOverride(d)
    \/ ExitOverride
    \/ Catch
    \/ Return
    \/ Idle /\ \E k \in Kernels, a \in AttributeEnum : kernel_get_attribute(k, a)
    \/ Idle /\ \E k \in Kernels : kernel_maximum_threads_per_block(k)
    \/ Idle /\ \E k \in Kernels : kernel_ptx_version(k)
    \/ Idle /\ \E k \in Kernels : kernel_binary_compilation_target_architecture(k)

SpecRead == InitRead /\ [][NextRead]_vars

\* The attribute reads of kernel_t.
ReadOps ==
    {"get_attribute", "maximum_threads_per_block", "ptx_version",
     "binary_compilation_target_architecture"}

\* C13: a read of one of the ten attributes whose driver call failed throws
\* the driver error to the caller, with a message naming the attribute and
\* the native status; the program goes on.
C13_ReadFailureSurfaced ==
    (lastOp.op \in ReadOps /\ lastOp.attribute \in Attributes
     /\ lastOp.status = "error") =>
        /\ lastOp.outcome = "driver_error"
        /\ lastOp.message = <<lastOp.label, lastOp.status>>
        /\ lastOp.label.index = lastOp.attribute

\* get_attribute and maximum_threads_per_block alone keep that rule.
C13_ThrowingReadsSurface ==
    (lastOp.op \in {"get_attribute", "maximum_threads_per_block"}
     /\ lastOp.attribute \in Attributes /\ lastOp.status = "error") =>
        /\ lastOp.outcome = "driver_error"
        /\ lastOp.message = <<lastOp.label, lastOp.status>>
        /\ lastOp.label.index = lastOp.attribute

\* ------------------------------------- maximum dynamic shared memory

NextSharedMemory ==
    \/ \E d \in Devices : EnterOverride(d)
    \/ ExitOverride
    \/ Catch
    \/ Return
    \/ Idle /\ \E k \in Kernels, amount \in SharedSizes :
            kernel_set_maximum_dynamic_shared_memory_per_block(k, amount)

SpecSharedMemory == InitAmbient /\ [][NextSharedMemory]_vars

\* C14: set_maximum_dynamic_shared_memory_per_block(amount) ends in
\* invalid_argument, with no driver call, exactly when the amount is larger
\* than the attribute value type holds; otherwise it makes one set-attribute
\* call for the maximum-dynamic-shared-size attribute with the value equal
\* to the amount.
C14_AmountValidated ==
    lastOp.op = "set_maximum_dynamic_shared_memory_per_block" =>
        IF lastOp.amount > MaxAttributeValue
        THEN lastOp.outcome = "invalid_argument" /\ lastOp.calls = <<>>
        ELSE /\ lastOp.outcome # "invalid_argument"
             /\ Len(lastOp.calls) = 1
             /\ lastOp.calls[1].attribute = MaxDynamicSharedSizeAttribute
             /\ lastOp.calls[1].value = lastOp.amount

\* What the code keeps of it: an amount the attribute value type holds
\* reaches the driver unchanged, and no amount is ever rejected.
C14_FittingAmountForwarded ==
    lastOp.op = "set_maximum_dynamic_shared_memory_per_block" =>
        /\ lastOp.outcome # "invalid_argument"
        /\ Len(lastOp.calls) = 1
        /\ lastOp.calls[1].attribute = MaxDynamicSharedSizeAttribute
        /\ lastOp.amount <= MaxAttributeValue =>
             lastOp.calls[1].value = lastOp.amount
        /\ lastOp.amount > MaxAttributeValue =>
             lastOp.calls[1].value < 0

\* ------------------------------------- operations that target a device

NextTarget ==
    \/ \E d \in Devices : EnterOverride(d)
    \/ ExitOverride
    \/ Catch
    \/ Return
    \/ Idle /\ \E d \in Devices : device_create_stream(d)
    \/ Idle /\ \E d \in Devices : memory_device_make_unique(d)
    \/ Idle /\ \E d \in Devices : memory_managed_make_unique(d)
    \/ Idle /\ \E s \in EventStreams, e \in Events : stream_enqueue_wait(s, e)
    \/ Idle /\ \E k \in Kernels, a \in ReadAttributes : kernel_get_attribute(k, a)
    \/ Idle /\ \E k \in Kernels, a \in SetAttributes : kernel_set_attribute(k, a, 0)
    \/ Idle /\ \E k \in Kernels :
            kernel_maximum_active_blocks_per_multiprocessor(k, 1, 0, FALSE)
    \/ Idle /\ \E k \in Kernels : kernel_min_grid_params_fixed(k, 0, 0, FALSE)

SpecTarget == InitAmbient /\ [][NextTarget]_vars

\* The device an operation targets.
TargetDevice(op) ==
    IF op.op \in {"create_stream", "device_make_unique",
                  "managed_make_unique", "enqueue_wait"}
    THEN op.device
    ELSE op.kernel.device_id

\* The operations that target a device.
TargetingOps ==
    {"create_stream", "device_make_unique", "managed_make_unique",
     "enqueue_wait", "get_attribute", "set_attribute",
     "maximum_active_blocks_per_multiprocessor", "min_grid_params_fixed"}

\* C15: every driver or allocation call made by an operation that targets a
\* device is made with that device as the ambient current device, whatever
\* the ambient device was on entry.
C15_TargetCurrentAtEveryCall ==
    lastOp.op \in TargetingOps =>
        \A i \in 1 .. Len(lastOp.calls) :
            lastOp.calls[i].device = TargetDevice(lastOp)

\* The operations that hold a named scoped override around their calls
\* keep that rule.
C15_NamedOverridesBracket ==
    lastOp.op \in TargetingOps
                  \ {"managed_make_unique", "min_grid_params_fixed"} =>
        \A i \in 1 .. Len(lastOp.calls) :
            lastOp.calls[i].device = TargetDevice(lastOp)

\* ------------------------------------------------- reads after sets

NextFresh ==
    \/ Catch
    \/ Return
    \/ Idle /\ \E k \in Kernels, a \in SetAttributes, v \in AttrValues :
            kernel_set_attribute(k, a, v)
    \/ Idle /\ \E k \in Kernels, v \in AttrValues :
            kernel_set_preferred_shared_mem_fraction(k, v)
    \/ Idle /\ \E k \in Kernels, a \in SetAttributes \cup ReadAttributes :
            kernel_get_attribute(k, a)
    \/ Idle /\ \E k \in Kernels, b \in BlockSizes, m \in SmemSizes, f \in BOOLEAN :
            kernel_maximum_active_blocks_per_multiprocessor(k, b, m, f)

SpecFresh == InitAmbient /\ [][NextFresh]_vars

\* C16: every attribute or occupancy read makes exactly one driver call; a
\* successful get_attribute returns the value the driver holds for that
\* kernel's attribute at that moment, which after a successful set is the
\* value set; a successful occupancy read returns the calculator's answer
\* for the configuration asked about.
C16_ReadsAreRoundTrips ==
    /\ lastOp.op = "get_attribute" =>
         /\ Len(lastOp.calls) = 1
         /\ lastOp.calls[1].fn = "cuFuncGetAttribute"
         /\ (lastOp.outcome = "ok" /\ funcAttr.set
             /\ funcAttr.kernel = lastOp.kernel
             /\ funcAttr.attribute = lastOp.attribute) =>
                lastOp.value = funcAttr.value
    /\ lastOp.op = "maximum_active_blocks_per_multiprocessor" =>
         /\ Len(lastOp.calls) = 1
         /\ lastOp.outcome = "ok" =>
              lastOp.value = occupancy_max_active_blocks(
                                 lastOp.calls[1].block_size,
                                 lastOp.calls[1].smem, lastOp.calls[1].flags)

\* C16 witness: a get_attribute of an attribute the driver had accepted a
\* non-zero value for returned that value.
C16_Witness ==
    /\ lastOp.op = "get_attribute"
    /\ lastOp.outcome = "ok"
    /\ funcAttr.set
    /\ funcAttr.kernel = lastOp.kernel
    /\ funcAttr.attribute = lastOp.attribute
    /\ funcAttr.value = MaxAttrValue
    /\ lastOp.value = MaxAttrValue

\* ------------------------------------------------ accessors of a range

NextAccessors ==
    \/ \E d \in Devices : EnterOverride(d)
    \/ ExitOverride
    \/ Catch
    \/ Return
    \/ memory_managed_accessors

SpecAccessors == InitAmbient /\ [][NextAccessors]_vars

\* The entries of the driver's array before its first invalid entry.
ValidPrefix(device_ids) ==
    LET invalid == {i \in 1 .. Len(device_ids) :
                        device_ids[i] = cudaInvalidDeviceId}
        n == IF invalid = {} THEN Len(device_ids)
             ELSE (CHOOSE i \in invalid : \A j \in invalid : i <= j) - 1
    IN SubSeq(device_ids, 1, n)

\* C17: accessors(region), when the driver call succeeds, returns the
\* entries of the driver's array that precede its first invalid entry, in
\* order: all of them when there is no invalid entry.
C17_AccessorsAreValidPrefix ==
    (lastOp.op = "accessors" /\ lastOp.outcome = "ok") =>
        lastOp.devices = ValidPrefix(lastOp.device_ids)

\* What the code gives instead: no entry is less than cudaInvalidDeviceId,
\* so the search stops at the start of the array and the vector is emptied.
C17_AccessorsAlwaysEmpty ==
    (lastOp.op = "accessors" /\ lastOp.outcome = "ok") =>
        lastOp.devices = <<>>

\* -------------------------------------------- launch of a wrapped kernel

C19_NameLookupInTable ==
    (lastOp.op \in ReadOps /\ ~ndebug) =>
        /\ lastOp.label.kind = "name"
        /\ lastOp.label.index \in Attributes

\* The reads of a fixed attribute keep that rule, and so does get_attribute
\* for the ten attributes the table names.
C19_NamedAttributesInTable ==
    (lastOp.op \in ReadOps /\ ~ndebug /\ lastOp.attribute \in Attributes) =>
        /\ lastOp.label.kind = "name"
        /\ lastOp.label.index = lastOp.attribute

====
